---- MODULE Spec2Model ----
(***************************************************************************)
(* Drilling-permit scraper: the result page parser (parse_results_table),   *)
(* the search session driver (scrape_permits), the plat retrieval          *)
(* orchestrator (download_plat_files) and the job runner                   *)
(* (scrape_and_save_task), modelled as state machines whose steps are the  *)
(* statements and awaited calls of src/src/scraper.py and src/src/main.py. *)
(***************************************************************************)
EXTENDS Integers, Sequences, FiniteSets, TLC

VARIABLES
    df,               \* the DataFrame handed to download_plat_files (a sequence of rows)
    idx,              \* 1-based position of df.iterrows()
    dpc,              \* position inside download_plat_files
    plat_file_paths,  \* the outcome list of download_plat_files
    record_numbers,   \* sub-document identifiers found on the current document page
    rn,               \* 1-based position in record_numbers
    subPc,            \* 1-based position in SubSteps for record_numbers[rn]
    fs,               \* files that exist under data/
    dirs,             \* directories that exist under data/
    retrievalOpen,    \* the browser of download_plat_files is launched and not closed
    run,              \* "first" or "second": which run of download_plat_files this is
    calls,            \* the session calls made for the row last entered (history)
    hist,             \* per row of df: what this run did for it (history)
    counties,         \* config['counties']
    site,             \* the result pages the search site serves, with their next controls
    sitePos,          \* the result page the search browser shows
    spc,              \* position inside scrape_permits
    selected_county_codes,
    all_permits_data,
    page_num,
    searchOpen,       \* the browser of scrape_permits is launched and not closed
    excPending,       \* an exception is propagating through the finally clause
    filter,           \* <<codes>> once select_option was given codes, <<>> before
    launches,         \* number of chromium.launch calls of scrape_permits (history)
    caught,           \* the except clause of scrape_permits ran (history)
    parsed,           \* the result pages handed to parse_results_table (history)
    result,           \* the DataFrame scrape_permits returned
    browserLog,       \* launch, new_page and close calls of scrape_permits that ended (history)
    jobs,             \* the job registry of main.py: job id -> entry
    tpc,              \* position of the job's background task
    html,             \* the page handed to a call of parse_results_table on its own
    ppc,              \* position inside that call
    pheaders,         \* headers, once the header row was read
    prow,             \* 1-based position of the row the loop over data_rows is at
    ppermits          \* permits_on_page of that call

dvars == <<df, idx, dpc, plat_file_paths, record_numbers, rn, subPc, fs, dirs,
           retrievalOpen, run, calls, hist>>

svars == <<counties, site, sitePos, spc, selected_county_codes, all_permits_data,
           page_num, searchOpen, excPending, filter, launches, caught, parsed, result,
           browserLog>>

jvars == <<jobs, tpc>>

pvars == <<html, ppc, pheaders, prow, ppermits>>

vars == <<dvars, svars, jvars, pvars>>

(***************************************************************************)
(* Bounds of the model.                                                    *)
(***************************************************************************)
MaxRecords == 2
MaxRecordNumbers == 2
MaxPages == 2
MaxCounties == 2
MaxRows == 5

(***************************************************************************)
(* Python values.                                                          *)
(***************************************************************************)
None == "<None>"
NaN == "nan"

\* Python truthiness of a cell value: '' and None are falsy, NaN is truthy.
Truthy(v) == v \notin {"", None}

\* Series.get(key, default)
Get(row, key, default) == IF key \in DOMAIN row THEN row[key] ELSE default

Range(s) == {s[i] : i \in DOMAIN s}

(***************************************************************************)
(* County code registry.                                                   *)
(***************************************************************************)
get_county_codes ==
    ("ANDREWS" :> "003") @@ ("ECTOR" :> "135") @@ ("MIDLAND" :> "329") @@
    ("MARTIN" :> "317") @@ ("HOWARD" :> "227") @@ ("GLASSCOCK" :> "173") @@
    ("REAGAN" :> "383") @@ ("UPTON" :> "461") @@ ("CRANE" :> "103") @@
    ("WARD" :> "475") @@ ("WINKLER" :> "495") @@ ("LOVING" :> "301") @@
    ("REEVES" :> "389") @@ ("PECOS" :> "371")

(***************************************************************************)
(* parse_results_table.  A page is [table, tbody, rows]; a row is          *)
(* [th, td], the texts of its header cells and its data cells; a data cell *)
(* is [a, select, text]: the text of its first link (<<>> when it has      *)
(* none), the options of its first selection control (<<>> when it has     *)
(* none) and its text; an option is [text, value] (value <<>> when the     *)
(* attribute is absent).                                                   *)
(***************************************************************************)
\* str.strip() on the texts of the model
Strip(t) ==
    CASE t = " 42 " -> "42"
      [] t = "  County  " -> "County"
      [] t = " " -> ""
      [] OTHER -> t

\* text.strip().replace('\n', ' ')...strip(); ' '.join(text_content.split())
Normalize(t) ==
    CASE t = " ANDREWS  " -> "ANDREWS"
      [] t = "PERMIAN   BASIN" -> "PERMIAN BASIN"
      [] t = " " -> ""
      [] OTHER -> Strip(t)

\* 'Images' in option.text
ContainsImages(t) == t \in {"Images", "Well Images"}

\* json.loads on the option values of the model
JsonLoads(v) ==
    CASE v = "{\"url\": \"http://neudocs/42\"}" ->
            [kind |-> "object", obj |-> ("url" :> "http://neudocs/42")]
      [] v = "{\"url\": \"http://neudocs/42_1\"}" ->
            [kind |-> "object", obj |-> ("url" :> "http://neudocs/42_1")]
      [] v = "{\"url\": \"http://neudocs/43\"}" ->
            [kind |-> "object", obj |-> ("url" :> "http://neudocs/43")]
      [] v = "{}" -> [kind |-> "object", obj |-> <<>>]
      [] v = "[1]" -> [kind |-> "list", obj |-> <<>>]
      [] v = "null" -> [kind |-> "null", obj |-> <<>>]
      [] OTHER -> [kind |-> "JSONDecodeError", obj |-> <<>>]

\* The scan of one cell's options: [raises, link].  json.JSONDecodeError and
\* KeyError are caught and leave plat_link as it was; value_json.get on a
\* value that is no dict raises AttributeError, which is not caught.
RECURSIVE ScanOptions(_, _)
ScanOptions(options, plat_link) ==
    IF options = <<>> THEN [raises |-> FALSE, link |-> plat_link]
    ELSE LET option == Head(options)
         IN IF ~ContainsImages(option.text)
            THEN ScanOptions(Tail(options), plat_link)
            ELSE IF option.value = <<>>
                 THEN ScanOptions(Tail(options), plat_link)
                 ELSE LET value_json == JsonLoads(option.value[1])
                      IN CASE value_json.kind = "JSONDecodeError" ->
                                 ScanOptions(Tail(options), plat_link)
                           [] value_json.kind = "object" ->
                                 ScanOptions(Tail(options),
                                             Get(value_json.obj, "url", ""))
                           [] OTHER -> [raises |-> TRUE, link |-> plat_link]

\* for i, header in enumerate(headers[2:], start=1): permit_data[header] = ...
\* [raises, data]; cols[i] raises IndexError when the row has too few cells.
RECURSIVE FillFields(_, _, _, _)
FillFields(headers, cols, i, permit_data) ==
    IF i + 2 > Len(headers) THEN [raises |-> FALSE, data |-> permit_data]
    ELSE IF i + 1 > Len(cols) THEN [raises |-> TRUE, data |-> permit_data]
    ELSE FillFields(headers, cols, i + 1,
                    (headers[i + 2] :> Normalize(cols[i + 1].text)) @@ permit_data)

\* The body of `for row in data_rows` for one row: [raises, exc, skip, data].
ParseRow(headers, row) ==
    LET cols == row.td
    IN IF cols = <<>> THEN [raises |-> FALSE, exc |-> "", skip |-> TRUE, data |-> <<>>]
       ELSE LET api == IF cols[1].a = <<>> THEN "" ELSE Strip(cols[1].a[1])
                scan == IF cols[1].select = <<>>
                        THEN [raises |-> FALSE, link |-> ""]
                        ELSE ScanOptions(cols[1].select[1], "")
                filled == FillFields(headers, cols, 1,
                                     ("API NO." :> api) @@ ("PlatLink" :> scan.link))
            IN IF scan.raises
               THEN [raises |-> TRUE, exc |-> "AttributeError", skip |-> FALSE,
                     data |-> <<>>]
               ELSE [raises |-> filled.raises,
                     exc |-> IF filled.raises THEN "IndexError" ELSE "",
                     skip |-> FALSE, data |-> filled.data]

RECURSIVE ParseRows(_, _, _)
ParseRows(headers, data_rows, permits_on_page) ==
    IF data_rows = <<>> THEN [raises |-> FALSE, permits |-> permits_on_page]
    ELSE LET r == ParseRow(headers, Head(data_rows))
         IN IF r.raises THEN [raises |-> TRUE, permits |-> <<>>]
            ELSE ParseRows(headers, Tail(data_rows),
                           IF r.skip THEN permits_on_page
                                     ELSE Append(permits_on_page, r.data))

\* parse_results_table(soup): [raises, permits]
parse_results_table(soup) ==
    IF ~soup.table \/ ~soup.tbody \/ Len(soup.rows) < 3
    THEN [raises |-> FALSE, permits |-> <<>>]
    ELSE LET ths == [i \in DOMAIN soup.rows[2].th |-> Strip(soup.rows[2].th[i])]
         IN IF ths = <<>>
            THEN [raises |-> TRUE, permits |-> <<>>]   \* headers[0] = ...: IndexError
            ELSE ParseRows(<<"API NO.", "PlatLink">> \o Tail(ths),
                           SubSeq(soup.rows, 3, Len(soup.rows)), <<>>)

\* Faulty variant: the rows keep the keys of their dicts.
DataFrame_NoFill(dicts) == dicts

\* pd.DataFrame(list of dicts): the columns are the union of the keys, a
\* missing value is NaN.
DataFrame(dicts) ==
    LET columns == UNION {DOMAIN dicts[i] : i \in DOMAIN dicts}
    IN [i \in DOMAIN dicts |->
           [k \in columns |-> IF k \in DOMAIN dicts[i] THEN dicts[i][k] ELSE NaN]]

(***************************************************************************)
(* download_plat_files: paths.                                             *)
(***************************************************************************)
\* os.path.join('data', 'plat_files', county)
DownloadDir(county) ==
    IF county = "" THEN "data/plat_files/" ELSE "data/plat_files/" \o county

\* os.path.join(download_dir, name)
PathJoin(dir, name) ==
    IF dir = "data/plat_files/" THEN dir \o name ELSE dir \o "/" \o name

RowCounty(row) == Get(row, "County", "UnknownCounty")
RowDir(row) == DownloadDir(RowCounty(row))

\* os.path.join(download_dir, f"{api_no}.tif")
TargetPath(row) == PathJoin(RowDir(row), Get(row, "API NO.", None) \o ".tif")

\* os.path.join(download_dir, f"{api_no}_{record_num}.tif")
SubDocPath(row, record_num) ==
    PathJoin(RowDir(row), Get(row, "API NO.", None) \o "_" \o record_num \o ".tif")

\* Faulty variant: only the link is looked at.
MissingLinkOrApi_LinkOnly(row) == ~Truthy(Get(row, "PlatLink", None))

\* if not plat_link or not api_no
MissingLinkOrApi(row) ==
    ~Truthy(Get(row, "PlatLink", None)) \/ ~Truthy(Get(row, "API NO.", None))

(***************************************************************************)
(* download_plat_files: the session calls of one sub-document, in order.   *)
(***************************************************************************)
\* Faulty variant: the document view is closed before the artifact is saved.
SubSteps_CloseBeforeSave ==
    << "scroll_into_view_if_needed", "wait_for_trigger", "click_trigger",
       "wait_for_imageMenu", "click_download_well_log", "wait_for_download_link",
       "click_download_link", "download_value", "click_closeDoc", "save_as" >>

SubSteps ==
    << "scroll_into_view_if_needed", "wait_for_trigger", "click_trigger",
       "wait_for_imageMenu", "click_download_well_log", "wait_for_download_link",
       "click_download_link", "download_value", "save_as", "click_closeDoc" >>

\* What the session is asked to do at step s of sub-document record_num.
SubCall(row, record_num, s) ==
    IF SubSteps[s] = "save_as"
    THEN <<"save_as", SubDocPath(row, record_num)>>
    ELSE <<SubSteps[s], record_num>>

FreshHist ==
    [ visited |-> FALSE, missing |-> FALSE, existed |-> FALSE, raised |-> FALSE,
      completed |-> FALSE, navigated |-> FALSE, interacted |-> FALSE,
      savedAny |-> FALSE, overwrote |-> FALSE, appended |-> <<>>,
      retrievedBefore |-> FALSE ]

\* The locals of one loop iteration, dead once the iteration is over.
ResetRowLocals ==
    /\ record_numbers' = <<>>
    /\ rn' = 1
    /\ subPc' = 1
    /\ calls' = <<>>

\* Faulty variant: no except clause, the exception leaves the loop.
ExceptHandler_Propagates ==
    /\ plat_file_paths' = plat_file_paths
    /\ idx' = idx
    /\ dpc' = "raised"

\* except Exception as e: logging.error(...); plat_file_paths.append('')
\* and the for loop goes on with the next row.
ExceptHandler ==
    /\ plat_file_paths' = Append(plat_file_paths, "")
    /\ idx' = idx + 1
    /\ dpc' = "row"

\* The try block ran to its end without an exception: nothing is appended.
TryBlockEnd ==
    /\ plat_file_paths' = plat_file_paths
    /\ idx' = idx + 1
    /\ dpc' = "row"

\* History: a session call was made for the row.
Interact(h, call) ==
    [h EXCEPT !.interacted = TRUE, !.navigated = @ \/ call[1] = "goto"]

\* History: the except clause ran for the row.
Raised(h) == [h EXCEPT !.raised = TRUE]

\* History: the entries this step put on the outcome list.
AppendedNow ==
    SubSeq(plat_file_paths', Len(plat_file_paths) + 1, Len(plat_file_paths'))
Track(h) == [h EXCEPT !.appended = @ \o AppendedNow]

\* logging.info, plat_file_paths = [], async with async_playwright(), chromium.launch
DLLaunch ==
    /\ dpc = "start"
    /\ UNCHANGED <<svars, jvars, pvars>>
    /\ plat_file_paths' = <<>>
    /\ hist' = [i \in 1..Len(df) |->
                  [FreshHist EXCEPT !.retrievedBefore = hist[i].retrievedBefore]]
    /\ \E ok \in BOOLEAN :
         IF ok THEN retrievalOpen' = TRUE /\ dpc' = "new_page"
               ELSE retrievalOpen' = retrievalOpen /\ dpc' = "raised"
    /\ UNCHANGED <<df, idx, record_numbers, rn, subPc, fs, dirs, run, calls>>

\* browser.new_context(accept_downloads=True); context.new_page()
DLNewPage ==
    /\ dpc = "new_page"
    /\ UNCHANGED <<svars, jvars, pvars>>
    /\ \E ok \in BOOLEAN :
         IF ok THEN dpc' = "row" /\ idx' = 1
               ELSE dpc' = "raised" /\ idx' = idx
    /\ UNCHANGED <<df, plat_file_paths, record_numbers, rn, subPc, fs, dirs,
                   retrievalOpen, run, calls, hist>>

\* for _, row in df.iterrows(): the loop is exhausted
DLLoopEnd ==
    /\ dpc = "row"
    /\ UNCHANGED <<svars, jvars, pvars>>
    /\ idx > Len(df)
    /\ dpc' = "close"
    /\ ResetRowLocals
    /\ UNCHANGED <<df, idx, plat_file_paths, fs, dirs, retrievalOpen, run, hist>>

\* if not plat_link or not api_no: plat_file_paths.append(''); continue
DLRowMissing ==
    /\ dpc = "row"
    /\ UNCHANGED <<svars, jvars, pvars>>
    /\ idx <= Len(df)
    /\ MissingLinkOrApi(df[idx])
    /\ plat_file_paths' = Append(plat_file_paths, "")
    /\ idx' = idx + 1
    /\ hist' = [hist EXCEPT ![idx] = Track([@ EXCEPT !.visited = TRUE, !.missing = TRUE])]
    /\ ResetRowLocals
    /\ UNCHANGED <<df, dpc, fs, dirs, retrievalOpen, run>>

\* Faulty variant: the existence check does not skip the row.
DLRowExists_NoSkip ==
    /\ dpc = "row"
    /\ UNCHANGED <<svars, jvars, pvars>>
    /\ idx <= Len(df)
    /\ ~MissingLinkOrApi(df[idx])
    /\ TargetPath(df[idx]) \in fs
    /\ dirs' = dirs \cup {RowDir(df[idx])}
    /\ dpc' = "goto"
    /\ hist' = [hist EXCEPT ![idx] = [@ EXCEPT !.visited = TRUE, !.existed = TRUE]]
    /\ ResetRowLocals
    /\ UNCHANGED <<df, idx, plat_file_paths, fs, retrievalOpen, run>>

\* os.makedirs(download_dir, exist_ok=True); if os.path.exists(file_path):
\* plat_file_paths.append(file_path); continue
DLRowExists ==
    /\ dpc = "row"
    /\ UNCHANGED <<svars, jvars, pvars>>
    /\ idx <= Len(df)
    /\ ~MissingLinkOrApi(df[idx])
    /\ RowCounty(df[idx]) # NaN
    /\ TargetPath(df[idx]) \in fs
    /\ dirs' = dirs \cup {RowDir(df[idx])}
    /\ plat_file_paths' = Append(plat_file_paths, TargetPath(df[idx]))
    /\ idx' = idx + 1
    /\ hist' = [hist EXCEPT ![idx] = Track([@ EXCEPT !.visited = TRUE, !.existed = TRUE])]
    /\ ResetRowLocals
    /\ UNCHANGED <<df, dpc, fs, retrievalOpen, run>>

\* os.makedirs(download_dir, exist_ok=True); the file does not exist: enter
\* the try block.  os.makedirs is taken to succeed; os.path.join on a County
\* cell that is NaN raises TypeError, outside the try block.
DLRowTry ==
    /\ dpc = "row"
    /\ UNCHANGED <<svars, jvars, pvars>>
    /\ idx <= Len(df)
    /\ ~MissingLinkOrApi(df[idx])
    /\ RowCounty(df[idx]) = NaN \/ TargetPath(df[idx]) \notin fs
    /\ IF RowCounty(df[idx]) = NaN
       THEN dirs' = dirs /\ dpc' = "raised"
       ELSE dirs' = dirs \cup {RowDir(df[idx])} /\ dpc' = "goto"
    /\ hist' = [hist EXCEPT ![idx] = [@ EXCEPT !.visited = TRUE]]
    /\ ResetRowLocals
    /\ UNCHANGED <<df, idx, plat_file_paths, fs, retrievalOpen, run>>

\* One awaited session call inside the try block that is not part of the
\* sub-document loop: it returns (when it can, and the block goes on at
\* `next`) or raises.
TryCall(at, call, next, canReturn) ==
    /\ dpc = at
    /\ UNCHANGED <<svars, jvars, pvars>>
    /\ calls' = Append(calls, call)
    /\ \E ok \in {canReturn, FALSE} :
         IF ok
         THEN /\ dpc' = next
              /\ UNCHANGED <<idx, plat_file_paths>>
              /\ hist' = [hist EXCEPT ![idx] = Interact(@, call)]
         ELSE /\ ExceptHandler
              /\ hist' = [hist EXCEPT ![idx] = Track(Raised(Interact(@, call)))]
    /\ UNCHANGED <<df, record_numbers, rn, subPc, fs, dirs, retrievalOpen, run>>

\* await page.goto(plat_link, timeout=timeout); a NaN cell is no url
DLGoto ==
    TryCall("goto", <<"goto", Get(df[idx], "PlatLink", None)>>, "wait_menu",
            Get(df[idx], "PlatLink", None) # NaN)

\* await page.locator(".showActionMenu").first.wait_for(state="visible", ...)
DLWaitMenu == TryCall("wait_menu", <<"wait_for", ".showActionMenu">>, "evaluate", TRUE)

\* The lists evaluate_all can return in the model: the identifiers "1".."n"
\* in ascending and in descending page order.
Numerals == <<"1", "2", "3", "4", "5", "6", "7", "8", "9">>
RecordNumberLists ==
    UNION { { [k \in 1..n |-> Numerals[k]], [k \in 1..n |-> Numerals[n + 1 - k]] }
            : n \in 0..MaxRecordNumbers }

\* record_numbers = await page.locator(".showActionMenu").evaluate_all(...)
DLEvaluate ==
    /\ dpc = "evaluate"
    /\ UNCHANGED <<svars, jvars, pvars>>
    /\ LET call == <<"evaluate_all", ".showActionMenu">>
       IN /\ calls' = Append(calls, call)
          /\ \/ \E found \in RecordNumberLists :
                  /\ record_numbers' = found
                  /\ hist' = [hist EXCEPT ![idx] =
                                [Interact(@, call) EXCEPT !.completed = (found = <<>>)]]
                  /\ IF found = <<>>
                     THEN TryBlockEnd
                     ELSE dpc' = "sub" /\ UNCHANGED <<idx, plat_file_paths>>
             \/ /\ ExceptHandler
                /\ hist' = [hist EXCEPT ![idx] = Track(Raised(Interact(@, call)))]
                /\ UNCHANGED record_numbers
    /\ UNCHANGED <<df, rn, subPc, fs, dirs, retrievalOpen, run>>

\* for record_num in record_numbers: one awaited call of the loop body.
DLSubStep ==
    /\ dpc = "sub"
    /\ UNCHANGED <<svars, jvars, pvars>>
    /\ LET row == df[idx]
           call == SubCall(row, record_numbers[rn], subPc)
           isSave == call[1] = "save_as"
           last == subPc = Len(SubSteps)
       IN /\ calls' = Append(calls, call)
          /\ \/ \* the call returns
                /\ fs' = IF isSave THEN fs \cup {call[2]} ELSE fs
                /\ hist' = [hist EXCEPT ![idx] =
                              [Interact(@, call) EXCEPT
                                 !.savedAny = @ \/ isSave,
                                 !.overwrote = @ \/ (isSave /\ call[2] \in fs),
                                 !.completed = last /\ rn = Len(record_numbers)]]
                /\ IF ~last
                   THEN subPc' = subPc + 1 /\ UNCHANGED <<rn, idx, plat_file_paths, dpc>>
                   ELSE IF rn < Len(record_numbers)
                        THEN rn' = rn + 1 /\ subPc' = 1
                             /\ UNCHANGED <<idx, plat_file_paths, dpc>>
                        ELSE TryBlockEnd /\ UNCHANGED <<rn, subPc>>
             \/ \* the call raises
                /\ ExceptHandler
                /\ hist' = [hist EXCEPT ![idx] = Track(Raised(Interact(@, call)))]
                /\ UNCHANGED <<fs, rn, subPc>>
    /\ UNCHANGED <<df, record_numbers, dirs, retrievalOpen, run>>

\* await browser.close()
DLClose ==
    /\ dpc = "close"
    /\ UNCHANGED <<svars, jvars, pvars>>
    /\ \/ retrievalOpen' = FALSE /\ dpc' = "assign"
       \/ retrievalOpen' \in BOOLEAN /\ dpc' = "raised"
    /\ UNCHANGED <<df, idx, plat_file_paths, record_numbers, rn, subPc, fs, dirs,
                   run, calls, hist>>

\* df['PlatFilePath'] = plat_file_paths: pandas raises ValueError when the
\* list's length is not the number of rows.
SetColumn(frame, name, values) ==
    [i \in 1..Len(frame) |->
        [k \in DOMAIN frame[i] \cup {name} |-> IF k = name THEN values[i] ELSE frame[i][k]]]

\* df['PlatFilePath'] = plat_file_paths; return df
DLAssign ==
    /\ dpc = "assign"
    /\ UNCHANGED <<svars, jvars, pvars>>
    /\ IF Len(plat_file_paths) = Len(df)
       THEN df' = SetColumn(df, "PlatFilePath", plat_file_paths) /\ dpc' = "returned"
       ELSE df' = df /\ dpc' = "raised_ValueError"
    /\ UNCHANGED <<idx, plat_file_paths, record_numbers, rn, subPc, fs, dirs,
                   retrievalOpen, run, calls, hist>>

DownloadNext ==
    \/ DLLaunch \/ DLNewPage \/ DLLoopEnd \/ DLRowMissing \/ DLRowExists \/ DLRowTry
    \/ DLGoto \/ DLWaitMenu \/ DLEvaluate \/ DLSubStep \/ DLClose \/ DLAssign

(***************************************************************************)
(* Runs of download_plat_files alone, over a record set the caller built   *)
(* and a download directory that outlives the runs.                        *)
(***************************************************************************)
Row(api, link) == ("API NO." :> api) @@ ("PlatLink" :> link) @@ ("County" :> "ANDREWS")

\* Rows of a frame that has a County column, and of one that has none.
RowPool(withCounty) ==
    IF withCounty
    THEN { Row("42", "http://neudocs/42"), Row("42_1", "http://neudocs/42_1"),
           Row("", "http://neudocs/0"), Row("42", "") }
    ELSE { ("API NO." :> "42") @@ ("PlatLink" :> "http://neudocs/42") }

Frames ==
    UNION { UNION {[1..n -> RowPool(c)] : n \in 0..MaxRecords} : c \in BOOLEAN }

\* Files a user or an earlier deployment left in the download directory.
PreExisting == {"data/plat_files/ANDREWS/42.tif"}

DropColumn(frame, name) ==
    [i \in 1..Len(frame) |-> [k \in DOMAIN frame[i] \ {name} |-> frame[i][k]]]

InitDownload ==
    /\ df \in Frames
    /\ idx = 1
    /\ dpc = "start"
    /\ plat_file_paths = <<>>
    /\ record_numbers = <<>>
    /\ rn = 1
    /\ subPc = 1
    /\ fs \in SUBSET PreExisting
    /\ dirs = {"data", "data/plat_files"} \cup
              (IF fs = {} THEN {} ELSE {"data/plat_files/ANDREWS"})
    /\ retrievalOpen = FALSE
    /\ run = "first"
    /\ calls = <<>>
    /\ hist = [i \in 1..Len(df) |-> FreshHist]
    /\ counties = <<>>
    /\ site = <<>>
    /\ sitePos = 0
    /\ spc = "idle"
    /\ selected_county_codes = <<>>
    /\ all_permits_data = <<>>
    /\ page_num = 0
    /\ searchOpen = FALSE
    /\ excPending = FALSE
    /\ filter = <<>>
    /\ launches = 0
    /\ caught = FALSE
    /\ parsed = <<>>
    /\ result = <<>>
    /\ browserLog = <<>>
    /\ jobs = <<>>
    /\ tpc = "no_job"
    /\ html = [table |-> FALSE, tbody |-> FALSE, rows |-> <<>>]
    /\ ppc = "idle"
    /\ pheaders = <<>>
    /\ prow = 0
    /\ ppermits = <<>>

\* The caller runs download_plat_files again over the same record set.
DLRunAgain ==
    /\ dpc \in {"returned", "raised", "raised_ValueError"}
    /\ UNCHANGED <<svars, jvars, pvars>>
    /\ run = "first"
    /\ run' = "second"
    /\ df' = DropColumn(df, "PlatFilePath")
    /\ dpc' = "start"
    /\ idx' = 1
    /\ retrievalOpen' = FALSE
    /\ plat_file_paths' = <<>>
    /\ hist' = [i \in 1..Len(df) |->
                  [FreshHist EXCEPT
                     !.retrievedBefore = hist[i].completed /\ hist[i].savedAny]]
    /\ UNCHANGED <<record_numbers, rn, subPc, fs, dirs, calls>>

\* One run of download_plat_files.
NextDownload == DownloadNext

SpecDownload == InitDownload /\ [][NextDownload]_vars

\* A run of download_plat_files and a second run over the same records and
\* the same directory.
NextRerun == DownloadNext \/ DLRunAgain

SpecRerun == InitDownload /\ [][NextRerun]_vars

(***************************************************************************)
(* scrape_permits.                                                         *)
(***************************************************************************)
\* Faulty variant: the comprehension stops at the first unknown name.
RECURSIVE SelectedCountyCodes_StopsAtUnknown(_)
SelectedCountyCodes_StopsAtUnknown(names) ==
    IF names = <<>> THEN <<>>
    ELSE IF Head(names) \in DOMAIN get_county_codes
         THEN <<get_county_codes[Head(names)]>>
              \o SelectedCountyCodes_StopsAtUnknown(Tail(names))
         ELSE <<>>

\* [county_codes_map[county] for county in config['counties']
\*  if county in county_codes_map]
RECURSIVE SelectedCountyCodes(_)
SelectedCountyCodes(names) ==
    IF names = <<>> THEN <<>>
    ELSE IF Head(names) \in DOMAIN get_county_codes
         THEN <<get_county_codes[Head(names)]>> \o SelectedCountyCodes(Tail(names))
         ELSE SelectedCountyCodes(Tail(names))

\* county_codes_map = ...; selected_county_codes = ...;
\* if not selected_county_codes: return pd.DataFrame()
SPResolve ==
    /\ spc = "start"
    /\ UNCHANGED <<dvars, jvars, pvars>>
    /\ UNCHANGED browserLog
    /\ selected_county_codes' = SelectedCountyCodes(counties)
    /\ all_permits_data' = <<>>
    /\ IF selected_county_codes' = <<>>
       THEN spc' = "returned" /\ result' = <<>>
       ELSE spc' = "launch" /\ result' = result
    /\ UNCHANGED <<counties, site, sitePos, page_num, searchOpen, excPending, filter,
                   launches, caught, parsed>>

\* async with async_playwright() as p: browser = await p.chromium.launch(headless=True)
\* (outside the try block)
SPLaunch ==
    /\ spc = "launch"
    /\ UNCHANGED <<dvars, jvars, pvars>>
    /\ launches' = launches + 1
    /\ \E ok \in BOOLEAN :
         IF ok THEN /\ searchOpen' = TRUE
                    /\ spc' = "new_page"
                    /\ browserLog' = Append(browserLog, "launch")
               ELSE /\ searchOpen' = searchOpen
                    /\ spc' = "raised"
                    /\ browserLog' = browserLog
    /\ UNCHANGED <<counties, site, sitePos, selected_county_codes, all_permits_data,
                   page_num, excPending, filter, caught, parsed, result>>

\* page = await browser.new_page()  (outside the try block)
SPNewPage ==
    /\ spc = "new_page"
    /\ UNCHANGED <<dvars, jvars, pvars>>
    /\ \E ok \in BOOLEAN :
         IF ok THEN spc' = "goto" /\ browserLog' = Append(browserLog, "new_page")
               ELSE spc' = "raised" /\ browserLog' = browserLog
    /\ UNCHANGED <<counties, site, sitePos, selected_county_codes, all_permits_data,
                   page_num, searchOpen, excPending, filter, launches, caught,
                   parsed, result>>

\* The awaited calls of the try block before the page loop, in order.
FormSteps ==
    << "goto", "select_option", "fill_from", "fill_to", "click_submit",
       "wait_for_selector" >>

FormStepAfter(step) ==
    CASE step = "goto" -> "select_option"
      [] step = "select_option" -> "fill_from"
      [] step = "fill_from" -> "fill_to"
      [] step = "fill_to" -> "click_submit"
      [] step = "click_submit" -> "wait_for_selector"
      [] step = "wait_for_selector" -> "content"

\* One of page.goto, page.select_option, page.fill, page.fill, page.click,
\* page.wait_for_selector: it returns or raises into the except clause.
SPFormStep ==
    /\ spc \in Range(FormSteps)
    /\ UNCHANGED <<dvars, jvars, pvars>>
    /\ UNCHANGED browserLog
    /\ \E ok \in BOOLEAN :
         IF ok
         THEN /\ spc' = FormStepAfter(spc)
              /\ filter' = IF spc = "select_option" THEN <<selected_county_codes>>
                                                    ELSE filter
              /\ sitePos' = IF spc = "click_submit" THEN 1 ELSE sitePos
              /\ page_num' = IF spc = "wait_for_selector" THEN 1 ELSE page_num
         ELSE /\ spc' = "except"
              /\ UNCHANGED <<filter, sitePos, page_num>>
    /\ UNCHANGED <<counties, site, selected_county_codes, all_permits_data,
                   searchOpen, excPending, launches, caught, parsed, result>>

\* Faulty variant: the page's records replace the accumulated ones.
Extend_Replaces(all_data, permits_on_page) == permits_on_page

\* all_permits_data.extend(permits_on_page)
Extend(all_data, permits_on_page) == all_data \o permits_on_page

\* content = await page.content(); soup = BeautifulSoup(content, 'html.parser');
\* permits_on_page = parse_results_table(soup); if not permits_on_page: break;
\* all_permits_data.extend(permits_on_page)
SPParsePage ==
    /\ spc = "content"
    /\ UNCHANGED <<dvars, jvars, pvars>>
    /\ UNCHANGED browserLog
    /\ \/ \* page.content() returns
          LET soup == site[sitePos].page
              got == parse_results_table(soup)
          IN /\ parsed' = Append(parsed, sitePos)
             /\ IF got.raises
                THEN spc' = "except" /\ UNCHANGED all_permits_data
                ELSE IF got.permits = <<>>
                     THEN spc' = "finally" /\ UNCHANGED all_permits_data
                     ELSE /\ all_permits_data' = Extend(all_permits_data, got.permits)
                          /\ spc' = "next_count"
       \/ \* page.content() raises
          spc' = "except" /\ UNCHANGED <<all_permits_data, parsed>>
    /\ UNCHANGED <<counties, site, sitePos, selected_county_codes, page_num,
                   searchOpen, excPending, filter, launches, caught, result>>

\* next_link = page.locator('a:has-text("[Next>]")'); if await next_link.count() > 0
SPNextCount ==
    /\ spc = "next_count"
    /\ UNCHANGED <<dvars, jvars, pvars>>
    /\ UNCHANGED browserLog
    /\ \/ spc' = IF site[sitePos].next THEN "click_next" ELSE "finally"
       \/ spc' = "except"
    /\ UNCHANGED <<counties, site, sitePos, selected_county_codes, all_permits_data,
                   page_num, searchOpen, excPending, filter, launches, caught,
                   parsed, result>>

\* await next_link.click()
SPClickNext ==
    /\ spc = "click_next"
    /\ UNCHANGED <<dvars, jvars, pvars>>
    /\ UNCHANGED browserLog
    /\ \/ spc' = "wait_for_load_state" /\ sitePos' = sitePos + 1
       \/ spc' = "except" /\ sitePos' = sitePos
    /\ UNCHANGED <<counties, site, selected_county_codes, all_permits_data, page_num,
                   searchOpen, excPending, filter, launches, caught, parsed, result>>

\* await page.wait_for_load_state('networkidle'); page_num += 1
SPWaitLoad ==
    /\ spc = "wait_for_load_state"
    /\ UNCHANGED <<dvars, jvars, pvars>>
    /\ UNCHANGED browserLog
    /\ \/ spc' = "content" /\ page_num' = page_num + 1
       \/ spc' = "except" /\ page_num' = page_num
    /\ UNCHANGED <<counties, site, sitePos, selected_county_codes, all_permits_data,
                   searchOpen, excPending, filter, launches, caught, parsed, result>>

\* Faulty variant: a screenshot that raises leaves the function at once.
SPExcept_NoFinally ==
    /\ spc = "except"
    /\ UNCHANGED <<dvars, jvars, pvars>>
    /\ UNCHANGED browserLog
    /\ caught' = TRUE
    /\ excPending' = FALSE
    /\ spc' \in {"finally", "raised"}
    /\ UNCHANGED <<counties, site, sitePos, selected_county_codes, all_permits_data,
                   page_num, searchOpen, filter, launches, parsed, result>>

\* except Exception as e: await page.screenshot(path='error_screenshot.png')
\* A screenshot that raises leaves the except clause with its exception.
SPExcept ==
    /\ spc = "except"
    /\ UNCHANGED <<dvars, jvars, pvars>>
    /\ UNCHANGED browserLog
    /\ caught' = TRUE
    /\ excPending' \in BOOLEAN
    /\ spc' = "finally"
    /\ UNCHANGED <<counties, site, sitePos, selected_county_codes, all_permits_data,
                   page_num, searchOpen, filter, launches, parsed, result>>

\* Faulty variant: the finally clause does not close the browser.
SPFinally_NoClose ==
    /\ spc = "finally"
    /\ UNCHANGED <<dvars, jvars, pvars>>
    /\ UNCHANGED browserLog
    /\ excPending' = FALSE
    /\ IF excPending
       THEN spc' = "raised" /\ result' = result
       ELSE spc' = "returned" /\ result' = DataFrame(all_permits_data)
    /\ UNCHANGED <<counties, site, sitePos, selected_county_codes, all_permits_data,
                   page_num, searchOpen, filter, launches, caught, parsed>>

\* finally: await browser.close(); then the pending exception goes on, or
\* return pd.DataFrame(all_permits_data)
SPFinally ==
    /\ spc = "finally"
    /\ UNCHANGED <<dvars, jvars, pvars>>
    /\ excPending' = FALSE
    /\ \/ /\ searchOpen' = FALSE
          /\ browserLog' = Append(browserLog, "close")
          /\ IF excPending
             THEN spc' = "raised" /\ result' = result
             ELSE spc' = "returned" /\ result' = DataFrame(all_permits_data)
       \/ \* browser.close() raises
          /\ searchOpen' \in BOOLEAN
          /\ browserLog' = Append(browserLog, "close_raised")
          /\ spc' = "raised"
          /\ result' = result
    /\ UNCHANGED <<counties, site, sitePos, selected_county_codes, all_permits_data,
                   page_num, filter, launches, caught, parsed>>

ScrapeNext ==
    \/ SPResolve \/ SPLaunch \/ SPNewPage \/ SPFormStep \/ SPParsePage
    \/ SPNextCount \/ SPClickNext \/ SPWaitLoad \/ SPExcept \/ SPFinally

(***************************************************************************)
(* Runs of scrape_permits alone, against a search site of a few pages.     *)
(***************************************************************************)
CountyNames == {"ANDREWS", "PECOS", "NOT_A_COUNTY"}
Configs == UNION {[1..n -> CountyNames] : n \in 0..MaxCounties}

ApiCell(api, url) ==
    [ a |-> <<api>>,
      select |-> << << [text |-> "GIS Viewer", value |-> <<"{}">>],
                       [text |-> "Images", value |-> <<url>>] >> >>,
      text |-> api ]
TextCell(t) == [a |-> <<>>, select |-> <<>>, text |-> t]

BlankRow == [th |-> <<>>, td |-> <<>>]
HeaderRow == [th |-> <<"API No.", "  County  ">>, td |-> <<>>]
ApiOnlyHeaderRow == [th |-> <<"API No.">>, td |-> <<>>]
DataRow(api, url) == [th |-> <<>>, td |-> <<ApiCell(api, url), TextCell(" ANDREWS  ")>>]
NoLinkRow(api) ==
    [th |-> <<>>, td |-> <<[a |-> <<api>>, select |-> <<>>, text |-> api],
                           TextCell("ANDREWS")>>]
ShortRow(api) == [th |-> <<>>, td |-> <<ApiCell(api, "not json")>>]

GridPage(data_rows) ==
    [table |-> TRUE, tbody |-> TRUE, rows |-> <<BlankRow, HeaderRow>> \o data_rows]

\* The result pages of the model: two rows, one row, one row without a
\* link, no data row, no table, a page whose data row has fewer cells
\* than the header names, and a page whose header row names one column.
PagePool ==
    { GridPage(<< DataRow(" 42 ", "{\"url\": \"http://neudocs/42\"}"),
                  DataRow("42_1", "{\"url\": \"http://neudocs/42_1\"}") >>),
      GridPage(<< DataRow("43", "{\"url\": \"http://neudocs/43\"}") >>),
      GridPage(<< NoLinkRow("45") >>),
      GridPage(<<>>),
      [table |-> FALSE, tbody |-> FALSE, rows |-> <<>>],
      GridPage(<< ShortRow("44") >>),
      [ table |-> TRUE, tbody |-> TRUE,
        rows |-> << BlankRow, ApiOnlyHeaderRow,
                    DataRow("46", "{\"url\": \"http://neudocs/43\"}") >> ] }

\* A site: its pages in order, each with or without a next-page control;
\* the last page has none.
Sites ==
    { st \in UNION {[1..n -> [page : PagePool, next : BOOLEAN]] : n \in 1..MaxPages} :
        ~st[Len(st)].next }

InitScrapeVars ==
    /\ sitePos = 0
    /\ selected_county_codes = <<>>
    /\ all_permits_data = <<>>
    /\ page_num = 0
    /\ searchOpen = FALSE
    /\ excPending = FALSE
    /\ filter = <<>>
    /\ launches = 0
    /\ caught = FALSE
    /\ parsed = <<>>
    /\ result = <<>>
    /\ browserLog = <<>>

\* No call of parse_results_table on its own is under way.
IdleParseVars ==
    /\ html = [table |-> FALSE, tbody |-> FALSE, rows |-> <<>>]
    /\ ppc = "idle"
    /\ pheaders = <<>>
    /\ prow = 0
    /\ ppermits = <<>>

IdleDownloadVars ==
    /\ df = <<>>
    /\ idx = 1
    /\ dpc = "idle"
    /\ plat_file_paths = <<>>
    /\ record_numbers = <<>>
    /\ rn = 1
    /\ subPc = 1
    /\ retrievalOpen = FALSE
    /\ run = "first"
    /\ calls = <<>>
    /\ hist = <<>>

NoJob == jobs = <<>> /\ tpc = "no_job"

InitScrape ==
    /\ counties \in Configs
    /\ site \in Sites
    /\ InitScrapeVars
    /\ spc = "start"
    /\ IdleDownloadVars
    /\ fs = {}
    /\ dirs = {"data"}
    /\ NoJob
    /\ IdleParseVars

NextScrape == ScrapeNext

SpecScrape == InitScrape /\ [][NextScrape]_vars

(***************************************************************************)
(* Calls of parse_results_table on its own, one step per statement group   *)
(* of the function, on pages built from a pool of header rows and rows.    *)
(***************************************************************************)
\* table = soup.find('table', class_='DataGrid'); tbody = table.find('tbody');
\* rows = tbody.find_all('tr', recursive=False); if len(rows) < 3: return []
PLocate ==
    /\ ppc = "start"
    /\ ppc' = IF ~html.table \/ ~html.tbody \/ Len(html.rows) < 3
              THEN "returned" ELSE "headers"
    /\ UNCHANGED <<html, pheaders, prow, ppermits>>
    /\ UNCHANGED <<dvars, svars, jvars>>

\* header_row = rows[1]; headers = [th.text.strip() ...]; headers[0] = 'API NO.';
\* headers.insert(1, 'PlatLink'); data_rows = rows[2:]
PHeaders ==
    /\ ppc = "headers"
    /\ LET ths == [i \in DOMAIN html.rows[2].th |-> Strip(html.rows[2].th[i])]
       IN IF ths = <<>>
          THEN ppc' = "raised_IndexError" /\ UNCHANGED <<pheaders, prow>>
          ELSE /\ pheaders' = <<"API NO.", "PlatLink">> \o Tail(ths)
               /\ prow' = 3
               /\ ppc' = "rows"
    /\ UNCHANGED <<html, ppermits>>
    /\ UNCHANGED <<dvars, svars, jvars>>

\* Faulty variant: a record is put in front of permits_on_page.
PRow_Prepends ==
    /\ ppc = "rows"
    /\ prow <= Len(html.rows)
    /\ LET r == ParseRow(pheaders, html.rows[prow])
       IN IF r.raises
          THEN ppc' = "raised_" \o r.exc /\ UNCHANGED <<prow, ppermits>>
          ELSE /\ ppermits' = IF r.skip THEN ppermits ELSE <<r.data>> \o ppermits
               /\ prow' = prow + 1
               /\ ppc' = ppc
    /\ UNCHANGED <<html, pheaders>>
    /\ UNCHANGED <<dvars, svars, jvars>>

\* One pass of `for row in data_rows`.
PRow ==
    /\ ppc = "rows"
    /\ prow <= Len(html.rows)
    /\ LET r == ParseRow(pheaders, html.rows[prow])
       IN IF r.raises
          THEN ppc' = "raised_" \o r.exc /\ UNCHANGED <<prow, ppermits>>
          ELSE /\ ppermits' = IF r.skip THEN ppermits ELSE Append(ppermits, r.data)
               /\ prow' = prow + 1
               /\ ppc' = ppc
    /\ UNCHANGED <<html, pheaders>>
    /\ UNCHANGED <<dvars, svars, jvars>>

\* return permits_on_page
PReturn ==
    /\ ppc = "rows"
    /\ prow > Len(html.rows)
    /\ ppc' = "returned"
    /\ UNCHANGED <<html, pheaders, prow, ppermits>>
    /\ UNCHANGED <<dvars, svars, jvars>>

\* A first cell whose selection control has the option 'GIS Viewer' and then
\* one option per value of `values`, named 'Images' and, from the second
\* on, 'Well Images'; a value is <<v>>, or <<>> for an absent attribute.
OptionsCell(link, values) ==
    [ a |-> link,
      select |-> << <<[text |-> "GIS Viewer", value |-> <<"{}">>]>> \o
                    [i \in DOMAIN values |->
                       [text |-> IF i = 1 THEN "Images" ELSE "Well Images",
                        value |-> values[i]]] >>,
      text |-> "" ]
ImagesRow(link, values) ==
    [th |-> <<>>, td |-> <<OptionsCell(link, values), TextCell("PERMIAN   BASIN")>>]

NoThRow == [th |-> <<>>, td |-> <<TextCell("API No."), TextCell("County")>>]
ParseHeaderPool == {HeaderRow, ApiOnlyHeaderRow, NoThRow}

\* The rows after the header row: a row with a link and a document link, a
\* row without cells, a row of header cells, a row without a selection
\* control, a row with one cell, rows whose 'Images' value is no JSON, has
\* no url, is a list, is null or is absent, a row with a second 'Images'
\* option that is no JSON, a row without a link and a row whose link has a
\* blank text.
ParseRowPool ==
    { DataRow(" 42 ", "{\"url\": \"http://neudocs/42\"}"),
      BlankRow,
      HeaderRow,
      NoLinkRow("45"),
      ShortRow("44"),
      ImagesRow(<<"46">>, << <<"not json">> >>),
      ImagesRow(<<"47">>, << <<"{}">> >>),
      ImagesRow(<<"48">>, << <<"[1]">> >>),
      ImagesRow(<<"49">>, << <<"null">> >>),
      ImagesRow(<<"50">>, << <<>> >>),
      ImagesRow(<<"51">>, << <<"{\"url\": \"http://neudocs/43\"}">>, <<"not json">> >>),
      ImagesRow(<<>>, << <<"{\"url\": \"http://neudocs/43\"}">> >>),
      ImagesRow(<<" ">>, << <<"{\"url\": \"http://neudocs/43\"}">> >>) }

\* The pages handed to parse_results_table: no table, a table without a
\* body, and tables of up to MaxRows rows whose row 0 is blank, whose row 1
\* is a header row of the pool and whose later rows are rows of the pool.
ParsePages ==
    { [table |-> FALSE, tbody |-> FALSE, rows |-> <<>>],
      [table |-> TRUE, tbody |-> FALSE, rows |-> <<>>],
      [table |-> TRUE, tbody |-> TRUE, rows |-> <<>>],
      [table |-> TRUE, tbody |-> TRUE, rows |-> <<BlankRow>>] } \cup
    { [table |-> TRUE, tbody |-> TRUE, rows |-> <<BlankRow, header_row>> \o data_rows] :
        header_row \in ParseHeaderPool,
        data_rows \in UNION {[1..n -> ParseRowPool] : n \in 0..(MaxRows - 2)} }

InitParse ==
    /\ html \in ParsePages
    /\ ppc = "start"
    /\ pheaders = <<>>
    /\ prow = 0
    /\ ppermits = <<>>
    /\ counties = <<>>
    /\ site = <<>>
    /\ InitScrapeVars
    /\ spc = "idle"
    /\ IdleDownloadVars
    /\ fs = {}
    /\ dirs = {"data"}
    /\ NoJob

NextParse == PLocate \/ PHeaders \/ PRow \/ PReturn

SpecParse == InitParse /\ [][NextParse]_vars

(***************************************************************************)
(* main.py: start_scraping and the background task scrape_and_save_task.   *)
(***************************************************************************)
JobId == "job-1"

SetStatus(registry, job_id, status) ==
    [registry EXCEPT ![job_id] = ("status" :> status) @@ @]

\* config = load_config(); job_id = str(uuid.uuid4());
\* jobs[job_id] = {"status": "pending", "config": ...}; background_tasks.add_task(...)
StartScraping ==
    /\ tpc = "no_job"
    /\ jobs' = (JobId :> (("status" :> "pending") @@ ("config" :> "config.yaml")))
    /\ tpc' = "pending"
    /\ UNCHANGED <<dvars, svars, pvars>>

\* jobs[job_id]['status'] = 'running'; df = await scrape_permits(config.model_dump())
TaskRun ==
    /\ tpc = "pending"
    /\ jobs' = SetStatus(jobs, JobId, "running")
    /\ tpc' = "scrape_permits"
    /\ spc' = "start"
    /\ UNCHANGED <<dvars, counties, site, sitePos, selected_county_codes,
                   all_permits_data, page_num, searchOpen, excPending, filter,
                   launches, caught, parsed, result, browserLog, pvars>>

\* Faulty variant: the retrieval is entered whatever the search returned.
RetrievalIsEntered_Always(frame) == TRUE

\* if not df.empty
RetrievalIsEntered(frame) == Len(frame) > 0

\* scrape_permits returned: if not df.empty: async with httpx.AsyncClient(...):
\* df = await download_plat_files(df, client); else: 'completed_with_no_data'
TaskAfterScrape ==
    /\ tpc = "scrape_permits"
    /\ spc = "returned"
    /\ IF RetrievalIsEntered(result)
       THEN /\ tpc' = "download_plat_files"
            /\ df' = result
            /\ dpc' = "start"
            /\ hist' = [i \in 1..Len(result) |-> FreshHist]
            /\ jobs' = jobs
       ELSE /\ tpc' = "done"
            /\ jobs' = SetStatus(jobs, JobId, "completed_with_no_data")
            /\ UNCHANGED <<df, dpc, hist>>
    /\ UNCHANGED <<idx, plat_file_paths, record_numbers, rn, subPc, fs, dirs,
                   retrievalOpen, run, calls, svars, pvars>>

\* download_plat_files returned: df.to_csv(csv_path, index=False);
\* status 'completed' and result_file are set with no await between them;
\* a to_csv that raises lands in the except clause.
TaskAfterDownload ==
    /\ tpc = "download_plat_files"
    /\ dpc = "returned"
    /\ tpc' = "done"
    /\ \/ /\ fs' = fs \cup {"data/" \o JobId \o "_permits.csv"}
          /\ jobs' = [jobs EXCEPT ![JobId] =
                        ("status" :> "completed") @@
                        ("result_file" :> "data/" \o JobId \o "_permits.csv") @@ @]
       \/ /\ fs' = fs
          /\ jobs' = [jobs EXCEPT ![JobId] =
                        ("status" :> "failed") @@ ("error" :> "OSError") @@ @]
    /\ UNCHANGED <<df, idx, dpc, plat_file_paths, record_numbers, rn, subPc, dirs,
                   retrievalOpen, run, calls, hist, svars, pvars>>

\* except Exception as e: status 'failed', error str(e)
TaskFailed ==
    /\ \/ tpc = "scrape_permits" /\ spc = "raised"
       \/ tpc = "download_plat_files" /\ dpc \in {"raised", "raised_ValueError"}
    /\ tpc' = "done"
    /\ jobs' = [jobs EXCEPT ![JobId] =
                  ("status" :> "failed") @@
                  ("error" :> IF dpc = "raised_ValueError" THEN "ValueError"
                                                           ELSE "Error") @@ @]
    /\ UNCHANGED <<dvars, svars, pvars>>

\* The sites a job is run against: every one-page site, and the two-page
\* site whose first page has two rows and whose second page has none.
ScenarioASite ==
    << [page |-> GridPage(<< DataRow(" 42 ", "{\"url\": \"http://neudocs/42\"}"),
                             DataRow("42_1", "{\"url\": \"http://neudocs/42_1\"}") >>),
        next |-> TRUE],
       [page |-> GridPage(<<>>), next |-> FALSE] >>

JobSites == {<<[page |-> pg, next |-> FALSE]>> : pg \in PagePool} \cup {ScenarioASite}

JobConfigs == {<<>>} \cup {<<c>> : c \in CountyNames}

\* One job against a search site and a download directory.
Init ==
    /\ counties \in JobConfigs
    /\ site \in JobSites
    /\ fs \in SUBSET PreExisting
    /\ dirs = {"data", "data/plat_files"} \cup
              (IF fs = {} THEN {} ELSE {"data/plat_files/ANDREWS"})
    /\ InitScrapeVars
    /\ spc = "idle"
    /\ IdleDownloadVars
    /\ NoJob
    /\ IdleParseVars

Next ==
    \/ StartScraping \/ TaskRun \/ TaskAfterScrape \/ TaskAfterDownload \/ TaskFailed
    \/ SPResolve \/ SPLaunch \/ SPNewPage \/ SPFormStep \/ SPParsePage
    \/ SPNextCount \/ SPClickNext \/ SPWaitLoad \/ SPExcept \/ SPFinally
    \/ DLLaunch \/ DLNewPage \/ DLLoopEnd \/ DLRowMissing \/ DLRowExists \/ DLRowTry
    \/ DLGoto \/ DLWaitMenu \/ DLEvaluate \/ DLSubStep \/ DLClose \/ DLAssign

Spec == Init /\ [][Next]_vars

(***************************************************************************)
(* Claims about download_plat_files.                                       *)
(***************************************************************************)
LoopOver == dpc \in {"close", "assign", "returned", "raised_ValueError"}

\* C1: when the loop over the records is over, the outcome list holds
\* exactly one entry per input record, in the records' order.
C1_OneOutcomePerRecord ==
    LoopOver =>
        /\ Len(plat_file_paths) = Len(df)
        /\ \A i \in 1..Len(df) : hist[i].appended = <<plat_file_paths[i]>>

\* C2: once download_plat_files is over, every record that was retrievable
\* (link and API number present, every download step succeeded, its files
\* saved) carries a non-empty PlatFilePath.
C2_RetrievedRecordHasPath ==
    dpc \in {"returned", "raised_ValueError"} =>
        \A i \in 1..Len(df) :
            (hist[i].completed /\ hist[i].savedAny) =>
                /\ "PlatFilePath" \in DOMAIN df[i]
                /\ df[i]["PlatFilePath"] # ""

\* C3: a session call that raises for record i puts exactly one empty entry
\* on the outcome list for i, and the loop still visits every later record;
\* no exception of a record's session calls leaves the loop.
C3_FailureIsolated ==
    /\ \A i \in 1..Len(df) :
          hist[i].raised => (hist[i].appended = <<"">> /\ idx > i)
    /\ LoopOver => \A i \in 1..Len(df) : hist[i].visited
    /\ dpc = "raised" =>
          \/ \A i \in 1..Len(df) : ~hist[i].visited
          \/ \A i \in 1..Len(df) : hist[i].visited /\ idx > Len(df)

C3_Witness ==
    /\ dpc = "close"
    /\ \E i, j \in 1..Len(df) : i < j /\ hist[i].raised /\ hist[j].interacted

\* C4: no save of a downloaded artifact targets a path at which a file
\* already existed.
C4_NeverOverwrites == \A i \in 1..Len(df) : ~hist[i].overwrote

\* C5: a record whose target file <county>/<apiNumber>.tif exists when the
\* record is reached gets no session call at all, and the existing path is
\* the one entry recorded for it.
C5_ExistingFileSkipped ==
    \A i \in 1..Len(df) :
        hist[i].existed =>
            /\ ~hist[i].navigated
            /\ ~hist[i].interacted
            /\ idx > i
            /\ hist[i].appended = <<TargetPath(df[i])>>
            /\ (idx = i + 1 /\ dpc = "row") => calls = <<>>

C5_Witness ==
    /\ dpc = "close"
    /\ \E i, j \in 1..Len(df) : hist[i].existed /\ hist[j].navigated

\* The calls the claim lists for one sub-document, in the claimed order.
C6_SubDocCalls(row, r) ==
    << <<"scroll_into_view_if_needed", r>>, <<"wait_for_trigger", r>>,
       <<"click_trigger", r>>, <<"wait_for_imageMenu", r>>,
       <<"click_download_well_log", r>>, <<"wait_for_download_link", r>>,
       <<"click_download_link", r>>, <<"download_value", r>>,
       <<"save_as", "data/plat_files/" \o RowCounty(row) \o "/" \o row["API NO."]
                     \o "_" \o r \o ".tif">>,
       <<"click_closeDoc", r>> >>

RECURSIVE C6_AllSubDocCalls(_, _)
C6_AllSubDocCalls(row, rs) ==
    IF rs = <<>> THEN <<>>
    ELSE C6_SubDocCalls(row, Head(rs)) \o C6_AllSubDocCalls(row, Tail(rs))

\* C6: for a record whose calls all succeed, the session calls are the
\* navigation, the menu wait and the enumeration, then, per identifier in
\* discovery order, trigger click, menu wait, "Download Well Log" click,
\* download-link click, save as <county>/<apiNumber>_<rk>.tif, close; the
\* n files exist afterwards.
C6_SubDocumentsInOrder ==
    (dpc = "row" /\ idx > 1 /\ hist[idx - 1].completed) =>
        LET row == df[idx - 1]
        IN /\ calls = << <<"goto", row["PlatLink"]>>,
                         <<"wait_for", ".showActionMenu">>,
                         <<"evaluate_all", ".showActionMenu">> >>
                      \o C6_AllSubDocCalls(row, record_numbers)
           /\ \A k \in 1..Len(record_numbers) :
                 SubDocPath(row, record_numbers[k]) \in fs

C6_Witness ==
    /\ dpc = "row" /\ idx > 1 /\ hist[idx - 1].completed
    /\ Len(record_numbers) = 2

(***************************************************************************)
(* Claims about scrape_permits.                                            *)
(***************************************************************************)
\* C7: no exception of the session steps of scrape_permits (opening the
\* session, the form steps, the page walk) reaches the caller.
C7_NoExceptionPropagates == spc # "raised"

\* The records of an uninterrupted page walk that starts at page k, and the
\* page it stops at.
RECURSIVE C8_Walk(_, _)
C8_Walk(st, k) ==
    LET got == parse_results_table(st[k].page).permits
    IN IF got = <<>> THEN [records |-> <<>>, last |-> k]
       ELSE IF ~st[k].next THEN [records |-> got, last |-> k]
       ELSE LET rest == C8_Walk(st, k + 1)
            IN [records |-> got \o rest.records, last |-> rest.last]

\* C8: pages are parsed in order; a walk that no exception interrupts stops
\* at the first page with zero records or without a next control and
\* returns the records of the pages before the stop, in page and row order;
\* two rows on page 1 and none on page 2 give 2 records and no third parse.
C8_PageWalk ==
    /\ parsed = [i \in 1..Len(parsed) |-> i]
    /\ (spc = "returned" /\ launches > 0 /\ ~caught) =>
          /\ all_permits_data = C8_Walk(site, 1).records
          /\ result = DataFrame(C8_Walk(site, 1).records)
          /\ Len(parsed) = C8_Walk(site, 1).last
          /\ site = ScenarioASite => (Len(result) = 2 /\ parsed = <<1, 2>>)

C8_Witness ==
    /\ spc = "returned" /\ ~caught
    /\ site = ScenarioASite
    /\ Len(result) = 2
    /\ parsed = <<1, 2>>

\* The codes of the configured names the registry knows, in configuration order.
C9_Codes ==
    LET known == SelectSeq(counties, LAMBDA c : c \in DOMAIN get_county_codes)
    IN [i \in 1..Len(known) |-> get_county_codes[known[i]]]

\* C9: a browser is launched exactly when some configured name resolves;
\* when none does the result is empty and nothing was launched; the county
\* filter is given exactly the codes of the resolvable names, in order.
C9_SessionIffCountyResolves ==
    /\ launches <= 1
    /\ launches = 1 => C9_Codes # <<>>
    /\ (spc \notin {"idle", "start", "launch"} /\ C9_Codes # <<>>) => launches = 1
    /\ (spc = "returned" /\ C9_Codes = <<>>) =>
          (result = <<>> /\ launches = 0 /\ ~searchOpen)
    /\ filter # <<>> => filter = <<C9_Codes>>
    /\ spc = "fill_from" => filter = <<C9_Codes>>

C9_Witness ==
    /\ counties = <<"NOT_A_COUNTY", "PECOS">>
    /\ filter = << <<"371">> >>
    /\ launches = 1

(***************************************************************************)
(* Claims about scrape_and_save_task.                                      *)
(***************************************************************************)
\* C10: the search browser and the retrieval browser are never open at the
\* same time; the retrieval browser is open only after scrape_permits
\* returned.
C10_SessionsNeverOverlap ==
    /\ ~(searchOpen /\ retrievalOpen)
    /\ retrievalOpen => spc = "returned"

C10_Witness ==
    /\ retrievalOpen
    /\ caught
    /\ tpc = "download_plat_files"

(***************************************************************************)
(* Claims about parse_results_table, under SpecParse.                      *)
(***************************************************************************)
ParseOver == ppc \in {"returned", "raised_IndexError", "raised_AttributeError"}

\* C11: parse_results_table never raises on a page whose table has only
\* header rows, a header row without header cells, or a data row with fewer
\* cells than the header row names: no call ends in the IndexError of
\* headers[0] or of cols[i].
C11_MalformedCountsDegrade == ppc # "raised_IndexError"

\* The 1-based position in the returned sequence of the record of rows[k]:
\* the number of rows with cells from rows[2] (0-based) up to it.
RecordOf(page, k) == Cardinality({j \in 3..k : page.rows[j].td # <<>>})

\* An 'Images' option of the row's first cell whose value is absent, is no
\* JSON, is no JSON object, or is an object without a url.
C12_ImagesValueFails(row) ==
    /\ row.td # <<>>
    /\ row.td[1].select # <<>>
    /\ \E i \in DOMAIN row.td[1].select[1] :
         LET option == row.td[1].select[1][i]
         IN /\ ContainsImages(option.text)
            /\ \/ option.value = <<>>
               \/ JsonLoads(option.value[1]).kind # "object"
               \/ "url" \notin DOMAIN JsonLoads(option.value[1]).obj

\* C12: a data row whose 'Images' option value fails JSON decoding or the
\* url lookup never makes parse_results_table raise, and its record has
\* PlatLink ''.
C12_BadImagesValueLeavesLinkEmpty ==
    /\ ppc # "raised_AttributeError"
    /\ ppc = "returned" =>
         \A k \in 3..Len(html.rows) :
            C12_ImagesValueFails(html.rows[k]) =>
               ppermits[RecordOf(html, k)]["PlatLink"] = ""

\* A page the parser is written for: a table with a body, a header row with
\* header cells at index 1, at least one row after it, and every such row
\* without cells or with a cell per header name, 'Images' values that are
\* JSON objects or fail in a caught way, and a link text that is not blank.
C13_WellFormedRow(header_row, row) ==
    \/ row.td = <<>>
    \/ /\ Len(row.td) >= Len(header_row.th)
       /\ row.td[1].a # <<>> => Strip(row.td[1].a[1]) # ""
       /\ row.td[1].select # <<>> =>
             \A i \in DOMAIN row.td[1].select[1] :
                LET option == row.td[1].select[1][i]
                IN (ContainsImages(option.text) /\ option.value # <<>>) =>
                      JsonLoads(option.value[1]).kind \in {"object", "JSONDecodeError"}

C13_WellFormed(page) ==
    /\ page.table
    /\ page.tbody
    /\ Len(page.rows) >= 3
    /\ page.rows[2].th # <<>>
    /\ \A k \in 3..Len(page.rows) : C13_WellFormedRow(page.rows[2], page.rows[k])

\* C13: on a well-formed page parse_results_table returns one record per
\* row with cells after the header row, in row order, whose 'API NO.' is the
\* stripped text of the link of the row's first cell (non-empty) or '' when
\* the cell has no link; rows without cells give no record and no error; a
\* table with fewer than 3 rows gives the empty sequence.
C13_OneRecordPerRowWithCells ==
    /\ (ParseOver /\ html.table /\ html.tbody /\ Len(html.rows) < 3) =>
          (ppc = "returned" /\ ppermits = <<>>)
    /\ (ParseOver /\ C13_WellFormed(html)) =>
          /\ ppc = "returned"
          /\ Len(ppermits) =
                Cardinality({k \in 3..Len(html.rows) : html.rows[k].td # <<>>})
          /\ \A k \in 3..Len(html.rows) :
                html.rows[k].td # <<>> =>
                   LET a == html.rows[k].td[1].a
                       permit_data == ppermits[RecordOf(html, k)]
                   IN /\ "API NO." \in DOMAIN permit_data
                      /\ permit_data["API NO."] = IF a = <<>> THEN "" ELSE Strip(a[1])
                      /\ a # <<>> => permit_data["API NO."] # ""
    /\ ParseOver =>
          /\ (ppc = "returned") = ~parse_results_table(html).raises
          /\ ppc = "returned" => ppermits = parse_results_table(html).permits

\* Two rows with cells and different numbers, around a row without cells.
C13_Witness ==
    /\ ppc = "returned"
    /\ C13_WellFormed(html)
    /\ Len(html.rows) = 5
    /\ html.rows[4].td = <<>>
    /\ Len(ppermits) = 2
    /\ ppermits[1]["API NO."] = "42"
    /\ ppermits[2]["API NO."] = "45"

(***************************************************************************)
(* Claims about the records of scrape_permits, under SpecScrape.           *)
(***************************************************************************)
\* C14 as stated: the records accumulated by one run of scrape_permits all
\* have the same set of field names, and each has 'API NO.' and 'PlatLink'.
C14_AccumulatedShareFieldNames ==
    /\ \A i, j \in DOMAIN all_permits_data :
          DOMAIN all_permits_data[i] = DOMAIN all_permits_data[j]
    /\ \A i \in DOMAIN all_permits_data :
          {"API NO.", "PlatLink"} \subseteq DOMAIN all_permits_data[i]

\* headers of a page that has a header row to read
C14_Headers(page) ==
    <<"API NO.", "PlatLink">> \o
    Tail([i \in DOMAIN page.rows[2].th |-> Strip(page.rows[2].th[i])])

\* the pages handed to parse_results_table that have a header row to read
C14_ParsedWithHeaders ==
    {page \in {site[parsed[k]].page : k \in DOMAIN parsed} :
        page.table /\ page.tbody /\ Len(page.rows) >= 3}

\* C14 amended: every accumulated record has 'API NO.' and 'PlatLink'; the
\* records accumulated from pages whose header rows name the same columns
\* have the same set of field names; the rows of the returned frame all
\* have the same columns, the union of the field names of the records.
C14_FieldNames ==
    /\ \A i \in DOMAIN all_permits_data :
          {"API NO.", "PlatLink"} \subseteq DOMAIN all_permits_data[i]
    /\ (\A a, b \in C14_ParsedWithHeaders :
            C14_Headers(a) = C14_Headers(b)) =>
          \A i, j \in DOMAIN all_permits_data :
             DOMAIN all_permits_data[i] = DOMAIN all_permits_data[j]
    /\ spc = "returned" =>
          /\ Len(result) = Len(all_permits_data)
          /\ \A i \in DOMAIN result :
                DOMAIN result[i] =
                   UNION {DOMAIN all_permits_data[j] : j \in DOMAIN all_permits_data}

\* A run returned the records of two pages whose header rows differ.
C14_Witness ==
    /\ spc = "returned"
    /\ Len(parsed) = 2
    /\ Len(result) = 2
    /\ DOMAIN all_permits_data[1] # DOMAIN all_permits_data[2]
    /\ result[2]["County"] = NaN

(***************************************************************************)
(* Further claims about download_plat_files, under SpecDownload.           *)
(***************************************************************************)
C15_IsMissing(row) ==
    \/ Get(row, "PlatLink", "") \in {"", None}
    \/ Get(row, "API NO.", "") \in {"", None}

\* What this run did for a visited record without link or number.
C15_Skipped ==
    \A i \in DOMAIN hist :
       (C15_IsMissing(df[i]) /\ hist[i].visited) =>
          /\ hist[i].appended = <<"">>
          /\ ~hist[i].interacted
          /\ ~hist[i].navigated
          /\ ~hist[i].raised
          /\ idx > i

\* The step taken at a record without link or number.
C15_SkipStep ==
    (dpc = "row" /\ idx <= Len(df) /\ C15_IsMissing(df[idx])) =>
       /\ fs' = fs
       /\ dirs' = dirs
       /\ calls' = <<>>
       /\ plat_file_paths' = Append(plat_file_paths, "")
       /\ idx' = idx + 1
       /\ dpc' = "row"

\* C15: for a record whose PlatLink or 'API NO.' is missing or empty,
\* download_plat_files appends one '' to the outcome list, makes no session
\* call, writes no file and no directory, and goes on with the next record.
C15_MissingRecordSkipped == []C15_Skipped /\ [][C15_SkipStep]_vars

\* A record without a number was skipped and the session was used for the
\* record after it.
C15_Witness ==
    /\ Len(df) = 2
    /\ df[1]["API NO."] = ""
    /\ hist[1].missing
    /\ hist[1].appended = <<"">>
    /\ hist[2].interacted

\* C16: download_plat_files returns the records it was given, in their
\* order, none added and none removed, each with PlatFilePath set and no
\* other field changed: once the loop and the browser are done with, the
\* function has returned and the frame is the given frame plus the column.
C16_SameRecordsWithPaths ==
    dpc \in {"returned", "raised_ValueError"} =>
       /\ dpc = "returned"
       /\ Len(df) = Len(hist)
       /\ \A i \in DOMAIN df : "PlatFilePath" \in DOMAIN df[i]
       /\ DropColumn(df, "PlatFilePath") \in Frames

\* C17: a record all of whose sub-documents were saved by a first run of
\* download_plat_files is treated as already retrieved by a second run over
\* the same records and directory: no navigation and no download for it.
C17_SecondRunSkipsRetrieved ==
    run = "second" =>
       \A i \in DOMAIN hist :
          hist[i].retrievedBefore => (~hist[i].navigated /\ ~hist[i].interacted)

(***************************************************************************)
(* Claims about the browser of scrape_permits, under SpecScrape.           *)
(***************************************************************************)
\* C18: a run of scrape_permits whose browser.new_page() returned has
\* awaited browser.close() once, as its last call on the browser, by the
\* time it returns or raises, whichever way the try block was left; when
\* that close returned the browser is closed.
C18_BrowserClosedOnExit ==
    (spc \in {"returned", "raised"} /\ "new_page" \in Range(browserLog)) =>
       /\ browserLog \in { <<"launch", "new_page", "close">>,
                           <<"launch", "new_page", "close_raised">> }
       /\ browserLog[3] = "close" => ~searchOpen
       /\ spc = "returned" => browserLog[3] = "close"

\* The screenshot of the except clause raised and the browser was closed.
C18_Witness ==
    /\ spc = "raised"
    /\ caught
    /\ browserLog = <<"launch", "new_page", "close">>
    /\ ~searchOpen

(***************************************************************************)
(* Claims about the job registry, under Spec.                              *)
(***************************************************************************)
\* The status a status request reads for the job, "none" before the job is
\* registered.
C19_Status(registry) ==
    IF JobId \in DOMAIN registry THEN registry[JobId]["status"] ELSE "none"

C19_Terminal == {"completed", "completed_with_no_data", "failed"}

\* What a status request can observe, and when the retrieval has begun.
C19_Observable ==
    /\ C19_Status(jobs) = "completed" =>
          /\ "result_file" \in DOMAIN jobs[JobId]
          /\ jobs[JobId]["result_file"] \in fs
    /\ C19_Status(jobs) \in C19_Terminal <=> tpc = "done"
    /\ dpc # "idle" =>
          /\ spc = "returned"
          /\ Len(result) >= 1
          /\ Len(df) = Len(result)
    /\ C19_Status(jobs) = "completed_with_no_data" => (result = <<>> /\ dpc = "idle")

\* The moves of the status.
C19_StatusStep ==
    /\ C19_Status(jobs') # C19_Status(jobs) =>
          \/ C19_Status(jobs) = "none" /\ C19_Status(jobs') = "pending"
          \/ C19_Status(jobs) = "pending" /\ C19_Status(jobs') = "running"
          \/ C19_Status(jobs) = "running" /\ C19_Status(jobs') \in C19_Terminal
    /\ C19_Status(jobs) \in C19_Terminal => jobs' = jobs

\* C19: the status of a job moves pending -> running -> one of completed,
\* completed_with_no_data, failed and the registry entry does not change
\* after that; whenever the status is completed, result_file is set; the
\* retrieval is entered only after the search returned at least one record.
C19_JobStatusLifecycle == []C19_Observable /\ [][C19_StatusStep]_vars

\* A job completed after a retrieval in which a record was visited.
C19_Witness ==
    /\ tpc = "done"
    /\ C19_Status(jobs) = "completed"
    /\ jobs[JobId]["result_file"] = "data/job-1_permits.csv"
    /\ dpc = "returned"
    /\ \E i \in DOMAIN hist : hist[i].visited

====
